---- MODULE Spec2Model ----
(***************************************************************************)
(* Model of the enhanced-outlook-mcp server core (index.js): the           *)
(* translation of a tool's JSON-Schema-like parameter description into a   *)
(* zod raw shape (jsonSchemaToZodShape), the registration of the tools     *)
(* with the MCP server, and the wrapped invocation of a tool's handler.    *)
(*                                                                         *)
(* Two specifications:                                                     *)
(*   SpecT  the translator as a pure function: Init draws a parameter      *)
(*          schema, Translate applies jsonSchemaToZodShape, Validate       *)
(*          parses an argument mapping against the resulting shape;        *)
(*   Spec   the server: registration loop, connect, concurrent wrapped     *)
(*          tool invocations.                                              *)
(***************************************************************************)
EXTENDS Integers, Sequences, FiniteSets, TLC

(***************************************************************************)
(* Bounds                                                                  *)
(***************************************************************************)
\* longest `type` list of a field specification
MaxTypes == 4
\* longest array value offered to a validator
MaxElems == 2
\* longest combined tool list
MaxTools == 2
\* tool calls received by one server run
MaxCalls == 2
\* emails in one move or copy, messages in the folder being moved, and its
\* first-level child folders
MaxEmails == 2
MaxMessages == 2
MaxChildren == 1
\* latest reading of the clock
MaxNow == 3
\* runs of the migration script on one token file
MaxRuns == 2

(***************************************************************************)
(* JSON values, as far as a validator can tell them apart: the type, the   *)
(* content of a string, the element types of an array.  "undefined" is an  *)
(* omitted value.                                                          *)
(***************************************************************************)
PrimitiveTags == {"string", "number", "boolean", "array", "object"}
\* a tag index.js has no branch for (JSON Schema's "integer")
UnknownTag == "integer"
TypeTags == PrimitiveTags \cup {UnknownTag}

ElemTypes == {"string", "number"}
SeqsUpTo(S, n) == UNION {[1..m -> S] : m \in 0..n}

Val(t, s, elems) == [t |-> t, s |-> s, elems |-> elems]
UndefinedValue == Val("undefined", "", <<>>)
Values ==
    {Val("string", s, <<>>) : s \in {"a", "b", "c"}}
    \cup {Val(t, "", <<>>) : t \in {"number", "boolean", "object", "null"}}
    \cup {Val("array", "", es) : es \in SeqsUpTo(ElemTypes, MaxElems)}

(***************************************************************************)
(* zod types.  A node is what index.js builds for one field: its kind,     *)
(* the enum values (z.enum), the members of a union (z.union), the element *)
(* validator of an array (z.array(z.any())), .optional() and .describe().  *)
(***************************************************************************)
Member(kind, element) == [kind |-> kind, element |-> element]
ZodNode(kind, values, options, element) ==
    [kind |-> kind, values |-> values, options |-> options, element |-> element,
     optional |-> FALSE, description |-> "undefined"]

zString == ZodNode("string", {}, <<>>, "none")
zNumber == ZodNode("number", {}, <<>>, "none")
zBoolean == ZodNode("boolean", {}, <<>>, "none")
zArrayAny == ZodNode("array", {}, <<>>, "any")
zObject == ZodNode("object", {}, <<>>, "none")
zAny == ZodNode("any", {}, <<>>, "none")
zEnum(values) == ZodNode("enum", values, <<>>, "none")
zUnion(options) == ZodNode("union", {}, options, "none")
zOptional(node) == [node EXCEPT !.optional = TRUE]
zDescribe(node, text) == [node EXCEPT !.description = text]

\* the element validator of z.array(z.any()) accepts every element
AcceptsElement(element, e) == element = "any"

\* ZodString, ZodNumber, ZodBoolean, ZodArray, ZodObject, ZodAny on a value
AcceptsMember(m, v) ==
    CASE m.kind = "string" -> v.t = "string"
      [] m.kind = "number" -> v.t = "number"
      [] m.kind = "boolean" -> v.t = "boolean"
      [] m.kind = "array" ->
            /\ v.t = "array"
            /\ \A i \in 1..Len(v.elems) : AcceptsElement(m.element, v.elems[i])
      [] m.kind = "object" -> v.t = "object"
      [] m.kind = "any" -> TRUE
      [] OTHER -> FALSE

\* the type of a node without its .optional() wrapper
AcceptsType(node, v) ==
    CASE node.kind = "enum" -> v.t = "string" /\ v.s \in node.values
      [] node.kind = "union" ->
            \E i \in 1..Len(node.options) : AcceptsMember(node.options[i], v)
      [] OTHER -> AcceptsMember(Member(node.kind, node.element), v)

\* ZodOptional: an omitted value passes, anything else goes to the inner type
Accepts(node, v) ==
    IF node.optional /\ v.t = "undefined" THEN TRUE ELSE AcceptsType(node, v)

\* z.object(shape).safeParse(args): every key of the shape is parsed against
\* the value of that key in args (undefined when the key is omitted)
ArgOf(args, k) == IF k \in DOMAIN args THEN args[k] ELSE UndefinedValue
ShapeAccepts(shape, args) ==
    \A k \in DOMAIN shape : Accepts(shape[k], ArgOf(args, k))

(***************************************************************************)
(* Parameter schemas                                                       *)
(***************************************************************************)
\* value.type: a single tag, a list of tags, or absent (tag "undefined")
SingleType(t) == [isArray |-> FALSE, tag |-> t, list |-> <<>>]
ListType(l) == [isArray |-> TRUE, tag |-> "undefined", list |-> l]
NoType == SingleType("undefined")

FieldSpec(type, hasEnum, enum, hasItems, items, hasDescription, description) ==
    [type |-> type, hasEnum |-> hasEnum, enum |-> enum,
     hasItems |-> hasItems, items |-> items,
     hasDescription |-> hasDescription, description |-> description]
PlainField(type) == FieldSpec(type, FALSE, {}, FALSE, <<>>, FALSE, "")

Schema(present, hasProperties, properties, hasRequired, required) ==
    [present |-> present, hasProperties |-> hasProperties,
     properties |-> properties, hasRequired |-> hasRequired,
     required |-> required]
NoProperties == [k \in {} |-> PlainField(NoType)]
UndefinedSchema == Schema(FALSE, FALSE, NoProperties, FALSE, {})

(***************************************************************************)
(* jsonSchemaToZodShape (index.js)                                         *)
(***************************************************************************)
Returned(shape) == [threw |-> FALSE, shape |-> shape]
\* a TypeError of the runtime: a property read on undefined, or
\* Object.entries(undefined)
TypeError == [threw |-> TRUE, shape |-> [k \in {} |-> zAny]]
EmptyShape == [k \in {} |-> zAny]

\* the guard with the test of `properties` left out
SchemaMissingSchemaOnly(jsonSchema) == ~jsonSchema.present

\* `!jsonSchema || !jsonSchema.properties`
SchemaMissing(jsonSchema) == ~jsonSchema.present \/ ~jsonSchema.hasProperties

\* the callback of value.type.map
TypeOfTag(t) ==
    IF t = "string" THEN Member("string", "none")
    ELSE IF t = "number" THEN Member("number", "none")
    ELSE IF t = "boolean" THEN Member("boolean", "none")
    ELSE IF t = "array" THEN Member("array", "any")
    ELSE IF t = "object" THEN Member("object", "none")
    ELSE Member("any", "none")

\* the multi-type branch as it was before z.union was introduced
MultiTypeAny(list) == zAny

\* the branch of Array.isArray(value.type): types, then the union by arity
MultiType(list) ==
    LET types == [i \in 1..Len(list) |-> TypeOfTag(list[i])]
    IN  IF Len(types) = 2 THEN zUnion(<<types[1], types[2]>>)
        ELSE IF Len(types) = 3 THEN zUnion(<<types[1], types[2], types[3]>>)
        ELSE zAny

\* the string branch with the enum test left out
StringTypeNoEnum(value) == zString

\* the branch of value.type === 'string'
StringType(value) == IF value.hasEnum THEN zEnum(value.enum) ELSE zString

\* the number branch, were it to look at the enum as the string branch does
NumberTypeWithEnum(value) == IF value.hasEnum THEN zEnum(value.enum) ELSE zNumber

\* the branch of value.type === 'number': value.enum is not read
NumberType(value) == zNumber

\* the if / else-if chain that sets zodType for one field
ZodTypeOf(value) ==
    IF value.type.isArray THEN MultiType(value.type.list)
    ELSE IF value.type.tag = "string" THEN StringType(value)
    ELSE IF value.type.tag = "number" THEN NumberType(value)
    ELSE IF value.type.tag = "boolean" THEN zBoolean
    ELSE IF value.type.tag = "array" THEN zArrayAny
    ELSE IF value.type.tag = "object" THEN zObject
    ELSE zAny

\* `jsonSchema.required && jsonSchema.required.includes(key)`
IsRequired(jsonSchema, key) == jsonSchema.hasRequired /\ key \in jsonSchema.required

\* `value.description || ''`
DescriptionOf(value) ==
    IF value.hasDescription /\ value.description # "" THEN value.description ELSE ""

\* the body of the for loop: the node stored under zodShape[key]
ShapeEntry(jsonSchema, key) ==
    LET value == jsonSchema.properties[key]
        zodType == ZodTypeOf(value)
    IN  IF IsRequired(jsonSchema, key)
        THEN zDescribe(zodType, DescriptionOf(value))
        ELSE zDescribe(zOptional(zodType), DescriptionOf(value))

\* the loop, were it to keep only the fields named in `required`
ShapeKeysRequiredOnly(jsonSchema) ==
    {key \in DOMAIN jsonSchema.properties : IsRequired(jsonSchema, key)}

\* the keys the for loop visits: Object.entries(jsonSchema.properties)
ShapeKeys(jsonSchema) == DOMAIN jsonSchema.properties

jsonSchemaToZodShape(jsonSchema) ==
    IF SchemaMissing(jsonSchema) THEN Returned(EmptyShape)
    ELSE IF ~jsonSchema.present \/ ~jsonSchema.hasProperties THEN TypeError
    ELSE Returned([key \in ShapeKeys(jsonSchema) |-> ShapeEntry(jsonSchema, key)])

(***************************************************************************)
(* State                                                                   *)
(***************************************************************************)
VARIABLES
    \* translator run: the schema handed to jsonSchemaToZodShape, its result,
    \* the argument mapping parsed against the shape, the verdict per field,
    \* and the position of the run
    jsonSchema, zodShape, args, verdict, tpc,
    \* server: the combined tool list, the position of the start-up code,
    \* the index of the registration loop, the tools the MCP server holds,
    \* the tool calls received so far, and the logger's output
    TOOLS, pc, toolIndex, registeredTools, calls, log,
    \* one run of a domain handler: which handler, its parameters, its
    \* position, the requests it has issued to the HTTP client, the auth
    \* server or the token store, and what it returned
    handler, params, emailIds, environment, hpc, cursor, requests, hresult,
    \* the session helper: the module-level Map, the clock read by Date.now(),
    \* and the last call with what it returned
    userSessions, now, sessionCall,
    \* the token migration: the token file and the runs of migrateTokens
    tokenFile, migration

tvars == <<jsonSchema, zodShape, args, verdict, tpc>>
svars == <<TOOLS, pc, toolIndex, registeredTools, calls, log>>
hvars == <<handler, params, emailIds, environment, hpc, cursor, requests, hresult>>
avars == <<userSessions, now, sessionCall, tokenFile, migration>>
vars == <<jsonSchema, zodShape, args, verdict, tpc,
          TOOLS, pc, toolIndex, registeredTools, calls, log,
          handler, params, emailIds, environment, hpc, cursor, requests, hresult,
          userSessions, now, sessionCall, tokenFile, migration>>

(***************************************************************************)
(* Inputs of the translator run                                            *)
(***************************************************************************)
FieldNames == {"to", "body"}
Lists == SeqsUpTo(TypeTags, MaxTypes) \ {<<>>}

EnumOptions == {<<FALSE, {}>>, <<TRUE, {}>>, <<TRUE, {"a"}>>, <<TRUE, {"a", "b"}>>}
ItemsOptions == {<<FALSE, <<>> >>, <<TRUE, <<"string", "object">> >>}
DescriptionOptions == {<<FALSE, "">>, <<TRUE, "">>, <<TRUE, "Recipients">>}

SingleSpecs ==
    {FieldSpec(SingleType(t), e[1], e[2], it[1], it[2], d[1], d[2]) :
        t \in TypeTags \cup {"undefined"}, e \in EnumOptions,
        it \in ItemsOptions, d \in DescriptionOptions}
ListSpecs ==
    {PlainField(ListType(l)) : l \in Lists}
    \cup {FieldSpec(ListType(l), TRUE, {"a"}, FALSE, <<>>, FALSE, "") :
            l \in {<<"string", "array">>, <<"number", "boolean">>}}
PairSpecs ==
    {PlainField(SingleType("string")), PlainField(NoType),
     PlainField(ListType(<<"string", "array">>))}

RequiredOptions == {<<FALSE, {}>>, <<TRUE, {}>>, <<TRUE, {"to"}>>, <<TRUE, {"cc"}>>}

Schemas ==
    {UndefinedSchema}
    \cup {Schema(TRUE, FALSE, NoProperties, r[1], r[2]) : r \in RequiredOptions}
    \cup {Schema(TRUE, TRUE, [k \in {"to"} |-> f], r[1], r[2]) :
            f \in SingleSpecs, r \in RequiredOptions}
    \cup {Schema(TRUE, TRUE, [k \in {"to"} |-> f], r[1], r[2]) :
            f \in ListSpecs, r \in {<<FALSE, {}>>, <<TRUE, {"to"}>>}}
    \cup {Schema(TRUE, TRUE, [k \in FieldNames |-> IF k = "to" THEN f ELSE g], TRUE, r) :
            f \in PairSpecs, g \in PairSpecs, r \in SUBSET FieldNames}

\* argument mappings: any subset of the declared fields, each with a value
ArgsFor(names) == UNION {[S -> Values] : S \in SUBSET names}
NoArgs == [k \in {} |-> UndefinedValue]

NoEmailIds == [kind |-> "undefined", ids |-> <<>>]
NoEnvironment == [messages |-> 0, children |-> <<>>, clientId |-> FALSE, users |-> <<>>]
NoResult ==
    [kind |-> "none", status |-> "", message |-> "", succeeded |-> <<>>, failed |-> <<>>, userId |-> ""]
HandlersOff ==
    /\ handler = ""
    /\ params = [k \in {} |-> ""]
    /\ emailIds = NoEmailIds
    /\ environment = NoEnvironment
    /\ hpc = "off"
    /\ cursor = <<0, 0, 0>>
    /\ requests = <<>>
    /\ hresult = NoResult

NoSession == [k \in {} |-> 0]
NoSessionCall == [op |-> "none", userId |-> "", session |-> NoSession,
                  returned |-> [null |-> TRUE, session |-> NoSession]]
NoTokenFile == [exists |-> FALSE, parses |-> FALSE, tokens |-> [k \in {} |-> ""]]
NoMigration == [runs |-> 0, decided |-> "", wrote |-> FALSE, writes |-> 0]
AuxiliaryOff ==
    /\ userSessions = [k \in {} |-> NoSession]
    /\ now = 0
    /\ sessionCall = NoSessionCall
    /\ tokenFile = NoTokenFile
    /\ migration = NoMigration

ServerOff ==
    /\ TOOLS = <<>>
    /\ pc = "off"
    /\ toolIndex = 0
    /\ registeredTools = [k \in {} |-> [inputSchema |-> EmptyShape, tool |-> 0, order |-> 0]]
    /\ calls = <<>>
    /\ log = {}

InitT ==
    /\ jsonSchema \in Schemas
    /\ zodShape = Returned(EmptyShape)
    /\ args = NoArgs
    /\ verdict = [k \in {} |-> TRUE]
    /\ tpc = "init"
    /\ ServerOff
    /\ HandlersOff
    /\ AuxiliaryOff

\* const zodShape = jsonSchemaToZodShape(tool.parameters)
Translate ==
    /\ tpc = "init"
    /\ zodShape' = jsonSchemaToZodShape(jsonSchema)
    /\ tpc' = "translated"
    /\ UNCHANGED <<jsonSchema, args, verdict>>
    /\ UNCHANGED svars
    /\ UNCHANGED hvars
    /\ UNCHANGED avars

\* z.object(zodShape).safeParse(a), field by field
Validate ==
    /\ tpc = "translated"
    /\ ~zodShape.threw
    /\ \E a \in ArgsFor(IF DOMAIN zodShape.shape = {} THEN {"to"} ELSE DOMAIN zodShape.shape) :
          /\ args' = a
          /\ verdict' = [k \in DOMAIN zodShape.shape |-> Accepts(zodShape.shape[k], ArgOf(a, k))]
    /\ tpc' = "validated"
    /\ UNCHANGED <<jsonSchema, zodShape>>
    /\ UNCHANGED svars
    /\ UNCHANGED hvars
    /\ UNCHANGED avars

NextT == Translate \/ Validate
SpecT == InitT /\ [][NextT]_vars

(***************************************************************************)
(* JSON.stringify(value, null, gap) on handler results.  A result is a     *)
(* tree: kind, string content, number, and the members of an object or the *)
(* elements of an array (key "" there).  "undefined" is a property the     *)
(* handler left undefined, "cyclic" a structure that refers to itself.     *)
(***************************************************************************)
JVal(kind, s, n, members) == [kind |-> kind, s |-> s, n |-> n, members |-> members]
JString(s) == JVal("string", s, 0, <<>>)
JNumber(n) == JVal("number", "", n, <<>>)
JUndefined == JVal("undefined", "", 0, <<>>)
JCyclic == JVal("cyclic", "", 0, <<>>)
JObject(members) == JVal("object", "", 0, members)
JArray(elements) == JVal("array", "", 0, [j \in DOMAIN elements |-> [key |-> "", val |-> elements[j]]])
Prop(key, val) == [key |-> key, val |-> val]

RECURSIVE Join(_, _)
Join(parts, separator) ==
    IF Len(parts) = 0 THEN ""
    ELSE IF Len(parts) = 1 THEN parts[1]
    ELSE parts[1] \o separator \o Join(Tail(parts), separator)

RECURSIVE HasCycle(_)
HasCycle(v) ==
    \/ v.kind = "cyclic"
    \/ \E j \in DOMAIN v.members : HasCycle(v.members[j].val)

\* SerializeJSONProperty / SerializeJSONObject / SerializeJSONArray
RECURSIVE Serialize(_, _, _)
Serialize(v, gap, indent) ==
    LET inner == indent \o gap
        opening == IF gap = "" THEN "" ELSE "\n" \o inner
        closing == IF gap = "" THEN "" ELSE "\n" \o indent
        separator == IF gap = "" THEN "," ELSE ",\n" \o inner
        colon == IF gap = "" THEN ":" ELSE ": "
    IN  CASE v.kind = "string" -> "\"" \o v.s \o "\""
          [] v.kind = "number" -> ToString(v.n)
          [] v.kind = "object" ->
                LET kept == SelectSeq(v.members, LAMBDA m : m.val.kind # "undefined")
                    parts == [j \in DOMAIN kept |->
                                "\"" \o kept[j].key \o "\"" \o colon
                                    \o Serialize(kept[j].val, gap, inner)]
                IN  IF Len(kept) = 0 THEN "{}"
                    ELSE "{" \o opening \o Join(parts, separator) \o closing \o "}"
          [] v.kind = "array" ->
                LET parts == [j \in DOMAIN v.members |->
                                IF v.members[j].val.kind = "undefined" THEN "null"
                                ELSE Serialize(v.members[j].val, gap, inner)]
                IN  IF Len(parts) = 0 THEN "[]"
                    ELSE "[" \o opening \o Join(parts, separator) \o closing \o "]"
          [] OTHER -> "null"

\* JSON.stringify throws a TypeError on a cyclic structure
JSONStringify(v, gap) ==
    IF HasCycle(v) THEN [threw |-> TRUE, text |-> ""]
    ELSE [threw |-> FALSE, text |-> Serialize(v, gap, "")]

(***************************************************************************)
(* Tool descriptors, handler outcomes, tool calls                          *)
(***************************************************************************)
\* a descriptor, with the module whose list it comes from
Tool(module, name, parameters) ==
    [module |-> module, name |-> name, parameters |-> parameters]

SendSchema ==
    Schema(TRUE, TRUE,
           [k \in FieldNames |->
                IF k = "to"
                THEN FieldSpec(ListType(<<"string", "array">>), FALSE, {}, FALSE, <<>>,
                               TRUE, "Recipients")
                ELSE PlainField(SingleType("string"))],
           TRUE, {"to"})
SubjectSchema ==
    Schema(TRUE, TRUE, [k \in {"to"} |-> PlainField(SingleType("string"))], TRUE, {"to"})

\* the descriptors a domain module can export; the calendar and folder
\* modules of the model export none, and the rules module reuses a name
Modules == <<"auth", "email", "calendar", "folder", "rules">>
ModuleTools(module) ==
    CASE module = "auth" -> {Tool("auth", "list_emails", UndefinedSchema)}
      [] module = "email" -> {Tool("email", "send_email", SendSchema)}
      [] module = "rules" -> {Tool("rules", "list_emails", SubjectSchema)}
      [] OTHER -> {}
ModuleLists(module) == SeqsUpTo(ModuleTools(module), MaxTools)

\* the combined list, were the rules tools spread first
CombineToolsRulesFirst(authTools, emailTools, calendarTools, folderTools, rulesTools) ==
    rulesTools \o authTools \o emailTools \o calendarTools \o folderTools

\* const TOOLS = [...authTools, ...emailTools, ...calendarTools, ...folderTools, ...rulesTools]
CombineTools(authTools, emailTools, calendarTools, folderTools, rulesTools) ==
    authTools \o emailTools \o calendarTools \o folderTools \o rulesTools

ToolLists ==
    {t \in {CombineTools(a, e, c, f, r) :
                a \in ModuleLists("auth"), e \in ModuleLists("email"),
                c \in ModuleLists("calendar"), f \in ModuleLists("folder"),
                r \in ModuleLists("rules")} : Len(t) \in 1..MaxTools}

\* what a handler resolves with
SuccessResult == JObject(<<Prop("status", JString("success")), Prop("count", JNumber(2))>>)
ErrorResult ==
    JObject(<<Prop("status", JString("error")), Prop("message", JString("Failed: timeout"))>>)
FolderResult ==
    JObject(<<Prop("status", JString("success")),
              Prop("folder", JObject(<<Prop("id", JString("f1")),
                                       Prop("parentFolderId", JUndefined)>>)),
              Prop("moved", JArray(<<JString("m1"), JString("m2")>>)),
              Prop("failed", JArray(<<>>))>>)
CyclicResult == JObject(<<Prop("status", JString("success")), Prop("self", JCyclic)>>)
HandlerResults == {SuccessResult, ErrorResult, FolderResult, CyclicResult}
\* what a handler throws or rejects with
HandlerErrors == {"boom", "Request failed with status code 401"}
CircularError == "Converting circular structure to JSON"
\* what a failing logger.info throws
LoggerError == "write EPIPE"

\* the arguments of an incoming tools/call request
CallArgs ==
    {NoArgs, [k \in {"to"} |-> Val("string", "a", <<>>)],
     [k \in {"to"} |-> Val("number", "", <<>>)]}

\* what wrappedHandler is invoked with: a mapping, undefined or null
Mapping(a) == [kind |-> "mapping", map |-> a]
Undefined == [kind |-> "undefined", map |-> NoArgs]
Null == [kind |-> "null", map |-> NoArgs]
WrapperInputs == {Undefined, Null, Mapping([k \in {"to"} |-> Val("string", "a", <<>>)])}

Pending == [kind |-> "pending", content |-> <<>>, error |-> ""]
InvalidParams == [kind |-> "invalid", content |-> <<>>, error |-> "Invalid arguments"]
Envelope(content) == [kind |-> "envelope", content |-> content, error |-> ""]
Rejected(error) == [kind |-> "rejected", content |-> <<>>, error |-> error]

NoHandlerOutcome == [kind |-> "none", value |-> JUndefined, error |-> ""]
Resolved(v) == [kind |-> "resolved", value |-> v, error |-> ""]
Threw(e) == [kind |-> "threw", value |-> JUndefined, error |-> e]

LogEntry(level, tool, call, message) ==
    [level |-> level, tool |-> tool, call |-> call, message |-> message]

(***************************************************************************)
(* Start-up (index.js, top level)                                          *)
(***************************************************************************)
Init ==
    /\ jsonSchema = UndefinedSchema
    /\ zodShape = Returned(EmptyShape)
    /\ args = NoArgs
    /\ verdict = [k \in {} |-> TRUE]
    /\ tpc = "off"
    /\ TOOLS \in ToolLists
    /\ pc = "register"
    /\ toolIndex = 0
    /\ registeredTools = [k \in {} |-> [inputSchema |-> EmptyShape, tool |-> 0, order |-> 0]]
    /\ calls = <<>>
    /\ log = {}
    /\ HandlersOff
    /\ AuxiliaryOff

\* the shape a tool is registered with, were the schema not passed on
RegisteredShapeNone(tool) == Returned(EmptyShape)

\* const zodShape = jsonSchemaToZodShape(tool.parameters), handed to server.tool
RegisteredShape(tool) == jsonSchemaToZodShape(tool.parameters)

\* start-up that goes on to server.connect after a failed registration
ReachesConnectAfterFailure(p, index, tools) ==
    \/ p = "register" /\ index = Len(tools)
    \/ p = "crashed"

\* the statements after the loop run once the loop has completed; an
\* exception of the loop body ends the evaluation of the module
ReachesConnect(p, index, tools) == p = "register" /\ index = Len(tools)

\* one iteration of `for (const tool of TOOLS)`; server.tool throws when the
\* name is already registered, and nothing catches it
RegisterTool ==
    /\ pc = "register"
    /\ toolIndex < Len(TOOLS)
    /\ LET tool == TOOLS[toolIndex + 1]
           shape == RegisteredShape(tool)
       IN  IF shape.threw \/ tool.name \in DOMAIN registeredTools
           THEN /\ pc' = "crashed"
                /\ UNCHANGED <<toolIndex, registeredTools>>
           ELSE /\ registeredTools' =
                      [n \in DOMAIN registeredTools \cup {tool.name} |->
                          IF n = tool.name
                          THEN [inputSchema |-> shape.shape, tool |-> toolIndex + 1,
                                order |-> Cardinality(DOMAIN registeredTools) + 1]
                          ELSE registeredTools[n]]
                /\ toolIndex' = toolIndex + 1
                /\ pc' = pc
    /\ UNCHANGED <<TOOLS, calls, log>>
    /\ UNCHANGED tvars
    /\ UNCHANGED hvars
    /\ UNCHANGED avars

\* server.connect(transport)
ServerConnect ==
    /\ ReachesConnect(pc, toolIndex, TOOLS)
    /\ pc' = "connecting"
    /\ UNCHANGED <<TOOLS, toolIndex, registeredTools, calls, log>>
    /\ UNCHANGED tvars
    /\ UNCHANGED hvars
    /\ UNCHANGED avars

\* .then: the connection is up
ConnectResolve ==
    /\ pc = "connecting"
    /\ pc' = "serving"
    /\ log' = log \cup {LogEntry("info", "", 0, "connected via stdio")}
    /\ UNCHANGED <<TOOLS, toolIndex, registeredTools, calls>>
    /\ UNCHANGED tvars
    /\ UNCHANGED hvars
    /\ UNCHANGED avars

\* .catch: logger.error and process.exit(1)
ConnectReject ==
    /\ pc = "connecting"
    /\ pc' = "exited"
    /\ log' = log \cup {LogEntry("error", "", 0, "Failed to start MCP server via stdio")}
    /\ UNCHANGED <<TOOLS, toolIndex, registeredTools, calls>>
    /\ UNCHANGED tvars
    /\ UNCHANGED hvars
    /\ UNCHANGED avars

(***************************************************************************)
(* Tool calls                                                              *)
(***************************************************************************)
\* z.object strips the keys the shape does not declare
ParsedArgs(shape, a) == [k \in DOMAIN a \cap DOMAIN shape |-> a[k]]

\* the MCP server receives tools/call: it parses the arguments against the
\* registered shape and answers invalid arguments itself
CallTool ==
    /\ pc = "serving"
    /\ Len(calls) < MaxCalls
    /\ \E name \in DOMAIN registeredTools, a \in CallArgs :
          LET shape == registeredTools[name].inputSchema
              valid == ShapeAccepts(shape, a)
          IN  calls' = Append(calls,
                  [tool |-> name, args |-> a,
                   wargs |-> IF valid THEN Mapping(ParsedArgs(shape, a)) ELSE Undefined,
                   stage |-> IF valid THEN "validated" ELSE "invalid",
                   handlerCalls |-> 0, handlerArgs |-> Undefined,
                   handler |-> NoHandlerOutcome,
                   outcome |-> IF valid THEN Pending ELSE InvalidParams])
    /\ UNCHANGED <<TOOLS, pc, toolIndex, registeredTools, log>>
    /\ UNCHANGED tvars
    /\ UNCHANGED hvars
    /\ UNCHANGED avars

\* wrappedHandler invoked as a function, with whatever the caller passes
InvokeWrapped ==
    /\ pc = "serving"
    /\ Len(calls) < MaxCalls
    /\ \E name \in DOMAIN registeredTools, w \in WrapperInputs :
          calls' = Append(calls,
              [tool |-> name, args |-> w.map, wargs |-> w, stage |-> "validated",
               handlerCalls |-> 0, handlerArgs |-> Undefined,
               handler |-> NoHandlerOutcome, outcome |-> Pending])
    /\ UNCHANGED <<TOOLS, pc, toolIndex, registeredTools, log>>
    /\ UNCHANGED tvars
    /\ UNCHANGED hvars
    /\ UNCHANGED avars

\* JSON.stringify(args) for the call log; the arguments of the model are
\* strings and numbers, the keys in the order of the shape
ValueJson(v) == IF v.t = "string" THEN JString(v.s) ELSE JNumber(0)
ArgsJson(a) ==
    LET keys == SelectSeq(<<"to", "body">>, LAMBDA k : k \in DOMAIN a)
    IN  JObject([j \in DOMAIN keys |-> Prop(keys[j], ValueJson(a[keys[j]]))])
ArgsText(w) ==
    IF w.kind = "mapping" THEN JSONStringify(ArgsJson(w.map), "").text ELSE w.kind

\* logger.info(`Tool ${tool.name} called with args:`, JSON.stringify(args))
CallLogEntry(c) ==
    LogEntry("info", calls[c].tool, c, "called with args: " \o ArgsText(calls[c].wargs))

\* the handler started whether or not the call was logged
StartsHandlerAnyway(logged) == TRUE

\* tool.handler is the statement after logger.info inside the try block: it
\* runs only when logger.info has returned
StartsHandler(logged) == logged

\* the argument handed on as it came
HandlerArgsAsGiven(w) == w

\* args || {}
HandlerArgs(w) == IF w.kind \in {"undefined", "null"} THEN Mapping(NoArgs) ELSE w

\* a result kept in one place for all the invocations in flight
SettledShared(cs, c, h, out) ==
    [d \in DOMAIN cs |->
        IF d = c \/ cs[d].stage = "awaiting"
        THEN [cs[d] EXCEPT !.stage = "done", !.handler = h, !.outcome = out]
        ELSE cs[d]]

\* the invocation c settles: result, error and outcome are locals of its
\* own activation of wrappedHandler
Settled(cs, c, h, out) ==
    [cs EXCEPT ![c].stage = "done", ![c].handler = h, ![c].outcome = out]

\* wrappedHandler up to the await: logger.info, then tool.handler(args || {});
\* when logger.info throws the catch block logs the error and rethrows it
WrappedHandlerStart(c) ==
    /\ calls[c].stage = "validated"
    /\ \E logged \in BOOLEAN :
          /\ log' = log \cup (IF logged THEN {CallLogEntry(c)}
                              ELSE {LogEntry("error", calls[c].tool, c, LoggerError)})
          /\ calls' = IF StartsHandler(logged)
                      THEN [calls EXCEPT ![c].stage = "awaiting",
                                         ![c].handlerCalls = @ + 1,
                                         ![c].handlerArgs = HandlerArgs(calls[c].wargs)]
                      ELSE [calls EXCEPT ![c].stage = "done",
                                         ![c].outcome = Rejected(LoggerError)]
    /\ UNCHANGED <<TOOLS, pc, toolIndex, registeredTools>>
    /\ UNCHANGED tvars
    /\ UNCHANGED hvars
    /\ UNCHANGED avars

\* a serialization failure answered with an empty text
StringifyThrowsRecovered == Envelope(<<[type |-> "text", text |-> ""]>>)

\* JSON.stringify throws inside the try block: no envelope is built, the
\* error goes to the catch block
StringifyThrows == Rejected(CircularError)

\* the envelope with the result serialized without indentation
NormalizeCompact(result) ==
    LET text == JSONStringify(result, "")
    IN  IF text.threw THEN StringifyThrows
        ELSE Envelope(<<[type |-> "text", text |-> text.text]>>)

\* { content: [ { type: "text", text: JSON.stringify(result, null, 2) } ] }
Normalize(result) ==
    LET text == JSONStringify(result, "  ")
    IN  IF text.threw THEN StringifyThrows
        ELSE Envelope(<<[type |-> "text", text |-> text.text]>>)

\* a catch block that answers with the error as a result
CaughtSwallowed(error) == Envelope(<<[type |-> "text", text |-> error]>>)

\* catch (error) { logger.error(...); throw error; }
Caught(error) == Rejected(error)

\* the handler's promise resolves: the result is normalized; a failure of
\* JSON.stringify lands in the catch block
HandlerResolve(c) ==
    /\ calls[c].stage = "awaiting"
    /\ \E result \in HandlerResults :
          LET out == Normalize(result)
          IN  /\ calls' = Settled(calls, c, Resolved(result),
                                  IF out.kind = "rejected" THEN Caught(out.error) ELSE out)
              /\ log' = IF out.kind = "rejected"
                        THEN log \cup {LogEntry("error", calls[c].tool, c, out.error)}
                        ELSE log
    /\ UNCHANGED <<TOOLS, pc, toolIndex, registeredTools>>
    /\ UNCHANGED tvars
    /\ UNCHANGED hvars
    /\ UNCHANGED avars

\* the catch block, were it to run the try block again
StageAfterCatchRetry == "validated"

\* the catch block ends the invocation
StageAfterCatch == "done"

\* the handler throws or its promise rejects: the catch block logs and rethrows
HandlerReject(c) ==
    /\ calls[c].stage = "awaiting"
    /\ \E error \in HandlerErrors :
          /\ calls' = [Settled(calls, c, Threw(error), Caught(error))
                          EXCEPT ![c].stage = StageAfterCatch]
          /\ log' = log \cup {LogEntry("error", calls[c].tool, c, error)}
    /\ UNCHANGED <<TOOLS, pc, toolIndex, registeredTools>>
    /\ UNCHANGED tvars
    /\ UNCHANGED hvars
    /\ UNCHANGED avars

Next ==
    \/ RegisterTool
    \/ ServerConnect
    \/ ConnectResolve
    \/ ConnectReject
    \/ CallTool
    \/ \E c \in 1..Len(calls) : WrappedHandlerStart(c)
    \/ \E c \in 1..Len(calls) : HandlerResolve(c)
    \/ \E c \in 1..Len(calls) : HandlerReject(c)

Spec == Init /\ [][Next]_vars

\* the same server with wrappedHandler invoked directly
NextW ==
    \/ RegisterTool
    \/ ServerConnect
    \/ ConnectResolve
    \/ ConnectReject
    \/ InvokeWrapped
    \/ \E c \in 1..Len(calls) : WrappedHandlerStart(c)
    \/ \E c \in 1..Len(calls) : HandlerResolve(c)
    \/ \E c \in 1..Len(calls) : HandlerReject(c)

SpecW == Init /\ [][NextW]_vars

(***************************************************************************)
(* The domain handlers                                                     *)
(***************************************************************************)

\* what a string parameter can hold; "" stands for omitted or empty
Ids == {"", "f1", "f2"}
UserIds == {"", "alice"}
ParamsOver(names, values) == [names -> values]

\* params.emailIds: omitted, a bare string, or an array of ids
EmailIdInputs ==
    {NoEmailIds, [kind |-> "string", ids |-> <<"m1">>]}
        \cup {[kind |-> "array", ids |-> s] : s \in SeqsUpTo({"m1", "m2"}, MaxEmails)}

\* the mailbox: the messages of the source folder, its first-level child
\* folders with their messages and the messages further below them
ChildFolders == [messages : 0..1, nested : 0..1]
Environment(messages, children, clientId, users) ==
    [messages |-> messages, children |-> children, clientId |-> clientId, users |-> users]
Mailboxes ==
    {Environment(m, c, TRUE, <<>>) : m \in 0..MaxMessages, c \in SeqsUpTo(ChildFolders, MaxChildren)}
\* the token store and the configured client id
TokenStores ==
    {Environment(0, <<>>, TRUE, u) : u \in {<<>>, <<"alice">>, <<"alice", "bob">>}}

\* a request to the HTTP client, the auth server or the token store, with
\* what came back: "ok", "empty" (null), "throws", or the value itself
Request(method, path, id, body, response) ==
    [method |-> method, path |-> path, id |-> id, body |-> body, response |-> response]
GraphResponses == {"ok", "empty", "throws"}
RequestError == "Request failed with status code 500"
NullDereference == "Cannot read properties of null"

\* what a handler's promise settles with
HResult(kind, status, message, succeeded, failed, userId) ==
    [kind |-> kind, status |-> status, message |-> message,
     succeeded |-> succeeded, failed |-> failed, userId |-> userId]
Returns(status, message) == HResult("returned", status, message, <<>>, <<>>, "")
Rejects(error) == HResult("rejected", "", error, <<>>, <<>>, "")

\* the catch block, were it to pass the error on
CatchBlockRethrow(prefix, error) == Rejects(error)

\* } catch (error) { return { status: 'error', message: `${prefix}${error.message}` } }
CatchBlock(prefix, error) == Returns("error", prefix \o error)

\* const x = await graphClient.<method>(...) inside try: the catch block when
\* the request rejects, else what the code does with a null or a real answer
AfterRequest(response, prefix, onEmpty, onOk) ==
    CASE response = "throws" -> CatchBlock(prefix, RequestError)
      [] response = "empty" -> onEmpty
      [] OTHER -> onOk

HandlerInput(h, p, e, env) == [handler |-> h, params |-> p, emailIds |-> e, environment |-> env]
NoParams == [k \in {} |-> ""]
NoMailboxNeeded == Environment(0, <<>>, TRUE, <<>>)

HandlerInputs ==
    {HandlerInput(h, NoParams, NoEmailIds, NoMailboxNeeded) : h \in {"listRules"}}
    \cup {HandlerInput("listFolders", p, NoEmailIds, NoMailboxNeeded) :
            p \in ParamsOver({"parentFolderId"}, Ids)}
    \cup {HandlerInput(h, p, NoEmailIds, NoMailboxNeeded) :
            h \in {"getFolder", "deleteFolder"}, p \in ParamsOver({"folderId"}, Ids)}
    \cup {HandlerInput("createFolder", p, NoEmailIds, NoMailboxNeeded) :
            p \in ParamsOver({"name", "parentFolderId"}, Ids)}
    \cup {HandlerInput("updateFolder", p, NoEmailIds, NoMailboxNeeded) :
            p \in ParamsOver({"folderId", "name"}, Ids)}
    \cup {HandlerInput(h, p, NoEmailIds, NoMailboxNeeded) :
            h \in {"getRule", "updateRule", "deleteRule", "rules/delete.deleteRule"},
            p \in ParamsOver({"ruleId"}, Ids)}
    \cup {HandlerInput("createRule", p, NoEmailIds, NoMailboxNeeded) :
            p \in ParamsOver({"displayName", "conditions", "actions"}, {"", "{}", "given"})}
    \cup {HandlerInput("createEvent", p, NoEmailIds, NoMailboxNeeded) :
            p \in ParamsOver({"subject", "start", "calendarId"}, {"", "given"})}
    \cup {HandlerInput(h, p, e, NoMailboxNeeded) :
            h \in {"moveEmails", "copyEmails"},
            p \in ParamsOver({"destinationFolderId"}, Ids), e \in EmailIdInputs}
    \cup {HandlerInput("moveFolder", p, NoEmailIds, env) :
            p \in ParamsOver({"folderId", "destinationFolderId"}, Ids), env \in Mailboxes}
    \cup {HandlerInput("authenticate", p, NoEmailIds, Environment(0, <<>>, c, <<>>)) :
            p \in ParamsOver({"userId"}, UserIds), c \in BOOLEAN}
    \cup {HandlerInput(h, p, NoEmailIds, env) :
            h \in {"checkAuthStatus", "revokeAuthentication", "listAuthenticatedUsers"},
            p \in ParamsOver({"userId"}, UserIds), env \in TokenStores}

\* a handler is called with a parameter mapping
InitH ==
    /\ jsonSchema = UndefinedSchema
    /\ zodShape = Returned(EmptyShape)
    /\ args = NoArgs
    /\ verdict = [k \in {} |-> TRUE]
    /\ tpc = "off"
    /\ ServerOff
    /\ \E i \in HandlerInputs :
          /\ handler = i.handler
          /\ params = i.params
          /\ emailIds = i.emailIds
          /\ environment = i.environment
    /\ hpc = "called"
    /\ cursor = <<0, 0, 0>>
    /\ requests = <<>>
    /\ hresult = NoResult
    /\ AuxiliaryOff

\* the handler's promise settles with r after issuing the requests reqs
Settle(reqs, r) ==
    /\ requests' = requests \o reqs
    /\ hresult' = r
    /\ hpc' = "done"
    /\ UNCHANGED <<handler, params, emailIds, environment, cursor>>
    /\ UNCHANGED tvars
    /\ UNCHANGED svars
    /\ UNCHANGED avars

\* the handler goes on to its next await
Continue(reqs, position, next) ==
    /\ requests' = requests \o reqs
    /\ hpc' = position
    /\ cursor' = next
    /\ UNCHANGED <<handler, params, emailIds, environment, hresult>>
    /\ UNCHANGED tvars
    /\ UNCHANGED svars
    /\ UNCHANGED avars

\* a handler with its required-parameter checks and one awaited request
OneRequest(missing, method, path, id, prefix, onEmpty, onOk) ==
    IF missing # ""
    THEN Settle(<<>>, Returns("error", missing))
    ELSE \E response \in GraphResponses :
            Settle(<<Request(method, path, id, "", response)>>,
                   AfterRequest(response, prefix, onEmpty, onOk))

listFoldersHandler ==
    /\ handler = "listFolders" /\ hpc = "called"
    /\ OneRequest("", "get",
                  IF params["parentFolderId"] # "" THEN "/me/mailFolders/{id}/childFolders"
                                                   ELSE "/me/mailFolders",
                  params["parentFolderId"],
                  "Failed to list folders: ",
                  Returns("error", "Failed to retrieve folders"),
                  Returns("success", ""))

getFolderHandler ==
    /\ handler = "getFolder" /\ hpc = "called"
    /\ OneRequest(IF params["folderId"] = "" THEN "Folder ID is required" ELSE "",
                  "get", "/me/mailFolders/{id}", params["folderId"],
                  "Failed to get folder: ",
                  Returns("error", "Folder not found with ID: " \o params["folderId"]),
                  Returns("success", ""))

createFolderHandler ==
    /\ handler = "createFolder" /\ hpc = "called"
    /\ OneRequest(IF params["name"] = "" THEN "Folder name required" ELSE "",
                  "post",
                  IF params["parentFolderId"] # "" THEN "/me/mailFolders/{id}/childFolders"
                                                   ELSE "/me/mailFolders",
                  params["parentFolderId"],
                  "Failed to create folder: ",
                  CatchBlock("Failed to create folder: ", NullDereference),
                  Returns("success", "Folder created successfully"))

updateFolderHandler ==
    /\ handler = "updateFolder" /\ hpc = "called"
    /\ OneRequest(IF params["folderId"] = "" THEN "Folder ID required"
                  ELSE IF params["name"] = "" THEN "New folder name required" ELSE "",
                  "patch", "/me/mailFolders/{id}", params["folderId"],
                  "Failed to update folder: ",
                  CatchBlock("Failed to update folder: ", NullDereference),
                  Returns("success", "Folder updated successfully"))

deleteFolderHandler ==
    /\ handler = "deleteFolder" /\ hpc = "called"
    /\ OneRequest(IF params["folderId"] = "" THEN "Folder ID required" ELSE "",
                  "delete", "/me/mailFolders/{id}", params["folderId"],
                  "Failed to delete folder: ",
                  Returns("success", "Folder deleted successfully"),
                  Returns("success", "Folder deleted successfully"))

listRulesHandler ==
    /\ handler = "listRules" /\ hpc = "called"
    /\ OneRequest("", "get", "/me/mailFolders/inbox/messageRules", "",
                  "Failed to list mail rules: ",
                  Returns("error", "Failed to retrieve mail rules"),
                  Returns("success", ""))

getRuleHandler ==
    /\ handler = "getRule" /\ hpc = "called"
    /\ OneRequest(IF params["ruleId"] = "" THEN "Rule ID is required" ELSE "",
                  "get", "/me/mailFolders/inbox/messageRules/{id}", params["ruleId"],
                  "Failed to get mail rule: ",
                  Returns("error", "Rule not found with ID: " \o params["ruleId"]),
                  Returns("success", ""))

\* a check of the value alone, which lets an object without keys through
NoKeysFalsyOnly(x) == x = ""

\* !params.x || Object.keys(params.x).length === 0
NoKeys(x) == x = "" \/ x = "{}"

createRuleHandler ==
    /\ handler = "createRule" /\ hpc = "called"
    /\ OneRequest(IF params["displayName"] = "" THEN "Rule display name is required"
                  ELSE IF NoKeys(params["conditions"])
                       THEN "At least one condition is required for the rule"
                  ELSE IF NoKeys(params["actions"])
                       THEN "At least one action is required for the rule"
                  ELSE "",
                  "post", "/me/mailFolders/inbox/messageRules", "",
                  "Failed to create mail rule: ",
                  CatchBlock("Failed to create mail rule: ", NullDereference),
                  Returns("success", "Rule created successfully"))

updateRuleHandler ==
    /\ handler = "updateRule" /\ hpc = "called"
    /\ OneRequest(IF params["ruleId"] = "" THEN "Rule ID is required" ELSE "",
                  "patch", "/me/mailFolders/inbox/messageRules/{id}", params["ruleId"],
                  "Failed to update mail rule: ",
                  Returns("success", "Rule updated successfully"),
                  Returns("success", "Rule updated successfully"))

deleteRuleHandler ==
    /\ handler = "deleteRule" /\ hpc = "called"
    /\ OneRequest(IF params["ruleId"] = "" THEN "Rule ID is required" ELSE "",
                  "delete", "/me/mailFolders/inbox/messageRules/{id}", params["ruleId"],
                  "Failed to delete mail rule: ",
                  Returns("success", "Rule deleted successfully"),
                  Returns("success", "Rule deleted successfully"))

\* the deleteRuleHandler of rules/delete.js
deleteRuleHandlerOfDelete ==
    /\ handler = "rules/delete.deleteRule" /\ hpc = "called"
    /\ OneRequest(IF params["ruleId"] = "" THEN "Rule ID required" ELSE "",
                  "delete", "/me/mailFolders/inbox/messageRules/{id}", params["ruleId"],
                  "Failed: ",
                  Returns("success", "Rule deleted"),
                  Returns("success", "Rule deleted"))

createEventHandler ==
    /\ handler = "createEvent" /\ hpc = "called"
    /\ OneRequest(IF params["subject"] = "" THEN "Event subject is required"
                  ELSE IF params["start"] = "" THEN "Event start time is required" ELSE "",
                  "post",
                  IF params["calendarId"] = "" THEN "/me/events" ELSE "/me/calendars/{id}/events",
                  params["calendarId"],
                  "Failed to create calendar event: ",
                  CatchBlock("Failed to create calendar event: ", NullDereference),
                  Returns("success", "Event created successfully"))

\* !emailIds || !Array.isArray(emailIds) || emailIds.length === 0
NoEmailIdsGiven(e) == e.kind # "array" \/ Len(e.ids) = 0

\* results.failed.push({ id: emailId, error: error.message })
FailedItem(id, error) == [id |-> id, error |-> error]

\* the result, were a call whose requests all failed reported as an error
EmailsResultErrorWhenNoneMoved(verb, succeeded, failed) ==
    HResult("returned",
            IF Len(failed) = 0 THEN "success"
            ELSE IF Len(succeeded) = 0 THEN "error" ELSE "partial",
            verb \o " " \o ToString(Len(succeeded)) \o " of "
                 \o ToString(Len(succeeded) + Len(failed)) \o " emails to folder",
            succeeded, failed, "")

\* return { status: failed.length === 0 ? 'success' : 'partial', ..., results }
EmailsResult(verb, succeeded, failed) ==
    HResult("returned",
            IF Len(failed) = 0 THEN "success" ELSE "partial",
            verb \o " " \o ToString(Len(succeeded)) \o " of "
                 \o ToString(Len(succeeded) + Len(failed)) \o " emails to folder",
            succeeded, failed, "")

\* a loop that gives up at the first request that throws
LoopEndsAtFailure(position, response) ==
    position = Len(emailIds.ids) \/ response = "throws"

\* for (const emailId of emailIds): the inner catch swallows the error, so
\* the loop ends after the last id only
LoopEnds(position, response) == position = Len(emailIds.ids)

\* the two per-email handlers: the checks, then one request per id, each in
\* its own try { } catch
EmailsHandler(path, verb) ==
    \/ /\ hpc = "called"
       /\ IF NoEmailIdsGiven(emailIds)
          THEN Settle(<<>>, Returns("error", "At least one email ID is required"))
          ELSE IF params["destinationFolderId"] = ""
          THEN Settle(<<>>, Returns("error", "Destination folder ID is required"))
          ELSE Continue(<<>>, "emails", <<1, 0, 0>>)
    \/ /\ hpc = "emails"
       /\ \E response \in {"ok", "throws"} :
            LET emailId == emailIds.ids[cursor[1]]
                request == Request("post", path, emailId, params["destinationFolderId"], response)
                succeeded == IF response = "ok" THEN Append(hresult.succeeded, emailId)
                                                ELSE hresult.succeeded
                failed == IF response = "ok" THEN hresult.failed
                          ELSE Append(hresult.failed, FailedItem(emailId, RequestError))
            IN  IF LoopEnds(cursor[1], response)
                THEN Settle(<<request>>, EmailsResult(verb, succeeded, failed))
                ELSE /\ requests' = Append(requests, request)
                     /\ hresult' = [hresult EXCEPT !.succeeded = succeeded, !.failed = failed]
                     /\ cursor' = <<cursor[1] + 1, 0, 0>>
                     /\ UNCHANGED <<handler, params, emailIds, environment, hpc>>
                     /\ UNCHANGED tvars
                     /\ UNCHANGED svars
                     /\ UNCHANGED avars

moveEmailsHandler ==
    /\ handler = "moveEmails"
    /\ EmailsHandler("/me/messages/{id}/move", "Moved")

copyEmailsHandler ==
    /\ handler = "copyEmails"
    /\ EmailsHandler("/me/messages/{id}/copy", "Copied")

\* the id the model gives the n-th message of a folder
MessageId(folder, n) == folder \o "-m" \o ToString(n)
ChildId(j) == "child" \o ToString(j)

\* a message move wrapped in a try { } catch of its own, as in the per-email
\* handlers
MoveThrowsSwallowed(response) == FALSE

\* await graphClient.post(`/me/messages/${message.id}/move`) directly in the
\* outer try: a rejection leaves the loop for the catch block
MoveThrows(response) == response = "throws"

moveFolderHandler ==
    /\ handler = "moveFolder"
    /\ LET folderId == params["folderId"]
           destinationFolderId == params["destinationFolderId"]
           prefix == "Failed to move folder: "
           i == cursor[1]
           j == cursor[2]
           k == cursor[3]
           \* newFolder, the answer to the third request, is null
           newFolderIsNull == Len(requests) >= 3 /\ requests[3].response = "empty"
           \* newChildFolder, the answer to the request before the listing, is null
           newChildFolderIsNull == requests[Len(requests)].response = "empty"
           \* the end of one round of the child-folder loop
           NextChild(reqs) ==
               IF j < Len(environment.children)
               THEN Continue(reqs, "createChild", <<i, j + 1, 0>>)
               ELSE Continue(reqs, "delete", cursor)
       IN
       \/ /\ hpc = "called"
          /\ IF folderId = ""
             THEN Settle(<<>>, Returns("error", "Folder ID is required"))
             ELSE IF destinationFolderId = ""
             THEN Settle(<<>>, Returns("error", "Destination parent folder ID is required"))
             ELSE IF folderId = destinationFolderId
             THEN Settle(<<>>, Returns("error", "Cannot move a folder to itself"))
             ELSE Continue(<<>>, "getFolder", cursor)
       \/ /\ hpc = "getFolder"
          /\ \E response \in GraphResponses :
               LET request == Request("get", "/me/mailFolders/{id}", folderId, "", response)
               IN  IF response = "ok"
                   THEN Continue(<<request>>, "getDestination", cursor)
                   ELSE Settle(<<request>>,
                               AfterRequest(response, prefix,
                                            Returns("error", "Source folder not found"), NoResult))
       \/ /\ hpc = "getDestination"
          /\ \E response \in GraphResponses :
               LET request == Request("get", "/me/mailFolders/{id}", destinationFolderId, "", response)
               IN  IF response = "ok"
                   THEN Continue(<<request>>, "createFolder", cursor)
                   ELSE Settle(<<request>>,
                               AfterRequest(response, prefix,
                                            Returns("error", "Destination folder not found"), NoResult))
       \/ /\ hpc = "createFolder"
          /\ \E response \in GraphResponses :
               LET request == Request("post", "/me/mailFolders/{id}/childFolders",
                                      destinationFolderId, "", response)
               IN  IF response = "throws"
                   THEN Settle(<<request>>, CatchBlock(prefix, RequestError))
                   ELSE Continue(<<request>>, "listMessages", cursor)
       \/ /\ hpc = "listMessages"
          /\ \E response \in GraphResponses :
               LET request == Request("get", "/me/mailFolders/{id}/messages", folderId, "", response)
               IN  IF response = "throws"
                   THEN Settle(<<request>>, CatchBlock(prefix, RequestError))
                   ELSE IF response = "ok" /\ environment.messages > 0
                   THEN IF newFolderIsNull
                        THEN Settle(<<request>>, CatchBlock(prefix, NullDereference))
                        ELSE Continue(<<request>>, "moveMessage", <<1, 0, 0>>)
                   ELSE Continue(<<request>>, "listChildren", cursor)
       \/ /\ hpc = "moveMessage"
          /\ \E response \in {"ok", "throws"} :
               LET request == Request("post", "/me/messages/{id}/move",
                                      MessageId("source", i), "newFolder", response)
               IN  IF MoveThrows(response)
                   THEN Settle(<<request>>, CatchBlock(prefix, RequestError))
                   ELSE IF i < environment.messages
                   THEN Continue(<<request>>, "moveMessage", <<i + 1, 0, 0>>)
                   ELSE Continue(<<request>>, "listChildren", cursor)
       \/ /\ hpc = "listChildren"
          /\ \E response \in GraphResponses :
               LET request == Request("get", "/me/mailFolders/{id}/childFolders", folderId, "", response)
               IN  IF response = "throws"
                   THEN Settle(<<request>>, CatchBlock(prefix, RequestError))
                   ELSE IF response = "ok" /\ Len(environment.children) > 0
                   THEN IF newFolderIsNull
                        THEN Settle(<<request>>, CatchBlock(prefix, NullDereference))
                        ELSE Continue(<<request>>, "createChild", <<i, 1, 0>>)
                   ELSE Continue(<<request>>, "delete", cursor)
       \/ /\ hpc = "createChild"
          /\ \E response \in GraphResponses :
               LET request == Request("post", "/me/mailFolders/{id}/childFolders",
                                      "newFolder", ChildId(j), response)
               IN  IF response = "throws"
                   THEN Settle(<<request>>, CatchBlock(prefix, RequestError))
                   ELSE Continue(<<request>>, "listChildMessages", cursor)
       \/ /\ hpc = "listChildMessages"
          /\ \E response \in GraphResponses :
               LET request == Request("get", "/me/mailFolders/{id}/messages", ChildId(j), "", response)
               IN  IF response = "throws"
                   THEN Settle(<<request>>, CatchBlock(prefix, RequestError))
                   ELSE IF response = "ok" /\ environment.children[j].messages > 0
                   THEN IF newChildFolderIsNull
                        THEN Settle(<<request>>, CatchBlock(prefix, NullDereference))
                        ELSE Continue(<<request>>, "moveChildMessage", <<i, j, 1>>)
                   ELSE NextChild(<<request>>)
       \/ /\ hpc = "moveChildMessage"
          /\ \E response \in {"ok", "throws"} :
               LET request == Request("post", "/me/messages/{id}/move",
                                      MessageId(ChildId(j), k), "newChildFolder", response)
               IN  IF MoveThrows(response)
                   THEN Settle(<<request>>, CatchBlock(prefix, RequestError))
                   ELSE IF k < environment.children[j].messages
                   THEN Continue(<<request>>, "moveChildMessage", <<i, j, k + 1>>)
                   ELSE NextChild(<<request>>)
       \/ /\ hpc = "delete"
          /\ \E response \in {"ok", "throws"} :
               LET request == Request("delete", "/me/mailFolders/{id}", folderId, "", response)
               IN  Settle(<<request>>,
                          IF response = "throws" THEN CatchBlock(prefix, RequestError)
                          ELSE IF newFolderIsNull THEN CatchBlock(prefix, NullDereference)
                          ELSE Returns("success", "Folder moved successfully"))

authenticateHandler ==
    /\ handler = "authenticate" /\ hpc = "called"
    /\ LET prefix == "Authentication failed: "
           userId == params["userId"]
       IN  IF ~environment.clientId
           THEN Settle(<<>>, CatchBlock(prefix,
                    "MS_CLIENT_ID environment variable is not configured. Please set it in your .env file."))
           ELSE \E response \in {"authentication_started", "other", "empty", "throws"} :
                  Settle(<<Request("post", "/auth/start", "",
                                   IF userId # "" THEN userId ELSE "mcp-user", response)>>,
                         CASE response = "throws" -> CatchBlock(prefix, RequestError)
                           [] response = "authentication_started" ->
                                HResult("returned", "authentication_started",
                                        "Authentication started. Please complete the authentication in your browser.",
                                        <<>>, <<>>, IF userId # "" THEN userId ELSE "default")
                           [] OTHER -> CatchBlock(prefix, "Failed to start authentication process"))

checkAuthStatusHandler ==
    /\ handler = "checkAuthStatus" /\ hpc = "called"
    /\ \E response \in GraphResponses :
         LET users == environment.users
         IN  Settle(<<Request("listUsers", "", "", "", response)>>,
                    AfterRequest(response, "Failed to check authentication status: ",
                                 CatchBlock("Failed to check authentication status: ", NullDereference),
                                 IF Len(users) = 0 THEN Returns("not_authenticated", "")
                                 ELSE HResult("returned", "authenticated", "", <<>>, <<>>, users[1])))

revokeAuthenticationHandler ==
    /\ handler = "revokeAuthentication" /\ hpc = "called"
    /\ LET userId == IF params["userId"] # "" THEN params["userId"] ELSE "default"
           stored == \E n \in 1..Len(environment.users) : environment.users[n] = userId
       IN  \E response \in {IF stored THEN "true" ELSE "false", "throws"} :
             Settle(<<Request("deleteToken", "", userId, "", response)>>,
                    CASE response = "throws" -> CatchBlock("Failed to revoke authentication: ", RequestError)
                      [] response = "true" ->
                           Returns("success", "Authentication revoked successfully for user " \o userId)
                      [] OTHER -> Returns("warning", "No authentication found for user " \o userId))

listAuthenticatedUsersHandler ==
    /\ handler = "listAuthenticatedUsers" /\ hpc = "called"
    /\ \E response \in GraphResponses :
         Settle(<<Request("listUsers", "", "", "", response)>>,
                AfterRequest(response, "Failed to list authenticated users: ",
                             CatchBlock("Failed to list authenticated users: ", NullDereference),
                             HResult("returned", "success", "", environment.users, <<>>, "")))

NextH ==
    \/ listFoldersHandler
    \/ getFolderHandler
    \/ createFolderHandler
    \/ updateFolderHandler
    \/ deleteFolderHandler
    \/ listRulesHandler
    \/ getRuleHandler
    \/ createRuleHandler
    \/ updateRuleHandler
    \/ deleteRuleHandler
    \/ deleteRuleHandlerOfDelete
    \/ createEventHandler
    \/ moveEmailsHandler
    \/ copyEmailsHandler
    \/ moveFolderHandler
    \/ authenticateHandler
    \/ checkAuthStatusHandler
    \/ revokeAuthenticationHandler
    \/ listAuthenticatedUsersHandler
SpecH == InitH /\ [][NextH]_vars

(***************************************************************************)
(* The multi-user session helper (auth/multi-user-support.js)              *)
(***************************************************************************)
SessionUserIds == {"u1", "u2"}
\* a session object: its fields with their values; a caller may pass one
\* that already carries a lastAccess, such as a session read back earlier
SessionFields == {"token", "lastAccess"}
Sessions == UNION {[S -> 1..2] : S \in SUBSET SessionFields}

\* Date.now(): the clock does not run backwards, and two calls may fall in
\* the same millisecond
ClockReadings == {t \in now..(now + 1) : t <= MaxNow}

SessionReturn(isNull, session) == [null |-> isNull, session |-> session]
SessionCall(op, userId, session, returned) ==
    [op |-> op, userId |-> userId, session |-> session, returned |-> returned]

\* the stored object, were only the time stamp kept
StoredSessionStampOnly(session, t) == [f \in {"lastAccess"} |-> t]

\* { ...session, lastAccess: Date.now() }
StoredSession(session, t) ==
    [f \in DOMAIN session \cup {"lastAccess"} |->
        IF f = "lastAccess" THEN t ELSE session[f]]

\* userSessions.set(userId, value)
MapSet(sessions, userId, value) ==
    [u \in DOMAIN sessions \cup {userId} |-> IF u = userId THEN value ELSE sessions[u]]

\* a read that drops the sessions not accessed since the clock last moved
SessionsAfterGetExpiring(sessions, userId, t) ==
    LET fresh == {u \in DOMAIN sessions : u = userId \/ sessions[u]["lastAccess"] >= t}
    IN  [u \in fresh |->
            IF u = userId THEN [sessions[u] EXCEPT !["lastAccess"] = t] ELSE sessions[u]]

\* session.lastAccess = Date.now() on the object held by the map
SessionsAfterGet(sessions, userId, t) ==
    [sessions EXCEPT ![userId] = [@ EXCEPT !["lastAccess"] = t]]

InitS ==
    /\ jsonSchema = UndefinedSchema
    /\ zodShape = Returned(EmptyShape)
    /\ args = NoArgs
    /\ verdict = [k \in {} |-> TRUE]
    /\ tpc = "off"
    /\ ServerOff
    /\ HandlersOff
    /\ userSessions = [k \in {} |-> NoSession]
    /\ now \in 0..1
    /\ sessionCall = NoSessionCall
    /\ tokenFile = NoTokenFile
    /\ migration = NoMigration

storeUserSession ==
    /\ \E userId \in SessionUserIds, session \in Sessions, t \in ClockReadings :
          /\ now' = t
          /\ userSessions' = MapSet(userSessions, userId, StoredSession(session, t))
          /\ sessionCall' = SessionCall("store", userId, session, SessionReturn(TRUE, NoSession))
    /\ UNCHANGED <<tokenFile, migration>>
    /\ UNCHANGED tvars
    /\ UNCHANGED svars
    /\ UNCHANGED hvars

getUserSession ==
    /\ \E userId \in SessionUserIds :
          IF userId \in DOMAIN userSessions
          THEN \E t \in ClockReadings :
                  /\ now' = t
                  /\ userSessions' = SessionsAfterGet(userSessions, userId, t)
                  /\ sessionCall' = SessionCall("get", userId, NoSession,
                                                SessionReturn(FALSE, userSessions'[userId]))
          ELSE /\ sessionCall' = SessionCall("get", userId, NoSession,
                                             SessionReturn(TRUE, NoSession))
               /\ UNCHANGED <<userSessions, now>>
    /\ UNCHANGED <<tokenFile, migration>>
    /\ UNCHANGED tvars
    /\ UNCHANGED svars
    /\ UNCHANGED hvars

NextS == storeUserSession \/ getUserSession
SpecS == InitS /\ [][NextS]_vars

(***************************************************************************)
(* The token migration script (auth/migrate-tokens.js)                     *)
(***************************************************************************)
\* the token file as the token store writes it: a JSON object from user ids
\* to tokens; a token may be null
TokenUserIds == {"default", "alice", "bob"}
Tokens == {"null", "t1", "t2"}
TokenMaps == UNION {[S -> Tokens] : S \in SUBSET TokenUserIds}
TokenFile(exists, parses, tokens) == [exists |-> exists, parses |-> parses, tokens |-> tokens]
TokenFiles ==
    {NoTokenFile, TokenFile(TRUE, FALSE, NoTokenFile.tokens)}
        \cup {TokenFile(TRUE, TRUE, t) : t \in TokenMaps}

Migration(runs, decided, wrote, writes) ==
    [runs |-> runs, decided |-> decided, wrote |-> wrote, writes |-> writes]

\* !tokens['default']: the key is absent or its value is falsy
NoDefaultToken(tokens) == "default" \notin DOMAIN tokens \/ tokens["default"] = "null"

\* a test of the 'default' key alone
NeedsMigrationAnyCount(tokens) == DOMAIN tokens # {} /\ NoDefaultToken(tokens)

\* users.length === 1 && !tokens['default']
NeedsMigration(tokens) == Cardinality(DOMAIN tokens) = 1 /\ NoDefaultToken(tokens)

\* users[0]
FirstUser(tokens) == CHOOSE u \in DOMAIN tokens : TRUE

\* { 'default': tokens[userId], [userId]: tokens[userId] }
NewTokens(tokens, userId) == [k \in {"default", userId} |-> tokens[userId]]

InitM ==
    /\ jsonSchema = UndefinedSchema
    /\ zodShape = Returned(EmptyShape)
    /\ args = NoArgs
    /\ verdict = [k \in {} |-> TRUE]
    /\ tpc = "off"
    /\ ServerOff
    /\ HandlersOff
    /\ userSessions = [k \in {} |-> NoSession]
    /\ now = 0
    /\ sessionCall = NoSessionCall
    /\ tokenFile \in TokenFiles
    /\ migration = NoMigration

\* one run of the script: read, parse, decide, write
migrateTokens ==
    /\ migration.runs < MaxRuns
    /\ LET runs == migration.runs + 1
           tokens == tokenFile.tokens
       IN  IF ~tokenFile.exists
           THEN /\ migration' = Migration(runs, "No token file found. Nothing to migrate.",
                                          FALSE, migration.writes)
                /\ UNCHANGED tokenFile
           ELSE IF ~tokenFile.parses
           THEN /\ migration' = Migration(runs, "Migration error:", FALSE, migration.writes)
                /\ UNCHANGED tokenFile
           ELSE IF NeedsMigration(tokens)
           THEN /\ tokenFile' = TokenFile(TRUE, TRUE, NewTokens(tokens, FirstUser(tokens)))
                /\ migration' = Migration(runs, "Token migration completed successfully!",
                                          TRUE, migration.writes + 1)
           ELSE /\ migration' = Migration(runs, "No migration needed.", FALSE, migration.writes)
                /\ UNCHANGED tokenFile
    /\ UNCHANGED <<userSessions, now, sessionCall>>
    /\ UNCHANGED tvars
    /\ UNCHANGED svars
    /\ UNCHANGED hvars

NextM == migrateTokens
SpecM == InitM /\ [][NextM]_vars

(***************************************************************************)
(* Properties of the translator (checked under SpecT)                      *)
(***************************************************************************)
Range(f) == {f[i] : i \in DOMAIN f}
Validated == tpc = "validated"
HasTo ==
    /\ jsonSchema.present
    /\ jsonSchema.hasProperties
    /\ "to" \in DOMAIN jsonSchema.properties
ToSpec == jsonSchema.properties["to"]
ToGiven == "to" \in DOMAIN args
IsMultiType(f) == f.type.isArray /\ Range(f.type.list) \subseteq PrimitiveTags

\* C1: a multi-type field of any length, built from the five primitive tags,
\* rejects every value whose type is none of the listed tags.
C1_MultiTypeNeverUnconstrained ==
    (Validated /\ HasTo /\ IsMultiType(ToSpec) /\ ToGiven /\
     args["to"].t \notin Range(ToSpec.type.list))
        => ~verdict["to"]

\* C2: a field whose type lists exactly 2 or 3 primitive tags accepts a value
\* exactly when the type of the value is one of the listed tags; for
\* ['string','array'] a string and an array pass and a number does not.
C2_UnionAcceptsExactlyListed ==
    (Validated /\ HasTo /\ IsMultiType(ToSpec) /\ ToGiven /\
     Len(ToSpec.type.list) \in {2, 3})
        => (verdict["to"] <=> args["to"].t \in Range(ToSpec.type.list))

C2_Witness ==
    /\ Validated /\ HasTo /\ ToGiven
    /\ ToSpec.type.isArray
    /\ ToSpec.type.list = <<"string", "array">>
    /\ args["to"].t = "number"
    /\ ~verdict["to"]

\* C3: a field named in `required` gets a required node (an omitted value is
\* rejected, also for a multi-type union), every other field gets an optional
\* node (an omitted value is accepted); without `required` all are optional.
C3_RequiredRejectsOmitted ==
    (Validated /\ HasTo)
        => IF jsonSchema.hasRequired /\ "to" \in jsonSchema.required
           THEN /\ ~zodShape.shape["to"].optional
                /\ ~ToGiven => ~verdict["to"]
           ELSE /\ zodShape.shape["to"].optional
                /\ ~ToGiven => verdict["to"]

\* C8: jsonSchemaToZodShape never throws, and an absent schema or absent
\* `properties` gives the empty shape.
C8_NeverThrows ==
    tpc # "init"
        => /\ ~zodShape.threw
           /\ (~jsonSchema.present \/ ~jsonSchema.hasProperties)
                => DOMAIN zodShape.shape = {}

C8_Witness ==
    /\ tpc = "translated"
    /\ jsonSchema.present
    /\ ~jsonSchema.hasProperties
    /\ jsonSchema.hasRequired
    /\ ~zodShape.threw
    /\ DOMAIN zodShape.shape = {}

\* C9: a field of type string with an enum accepts exactly the strings of
\* the enum: every other string and every non-string value is rejected.
C9_EnumAcceptsExactlyListed ==
    (Validated /\ HasTo /\ ToGiven /\ ~ToSpec.type.isArray /\
     ToSpec.type.tag = "string" /\ ToSpec.hasEnum)
        => (verdict["to"] <=>
                (args["to"].t = "string" /\ args["to"].s \in ToSpec.enum))

C9_Witness ==
    /\ Validated /\ HasTo /\ ToGiven
    /\ ~ToSpec.type.isArray /\ ToSpec.type.tag = "string"
    /\ ToSpec.hasEnum /\ ToSpec.enum = {"a", "b"}
    /\ args["to"] = Val("string", "c", <<>>)
    /\ ~verdict["to"]

\* C10: an array field with an `items` sub-schema accepts an array only if
\* every element has one of the types declared in `items`; without `items`
\* any array is accepted and anything that is not an array is rejected.
C10_ItemsConstrainElements ==
    (Validated /\ HasTo /\ ToGiven /\ ~ToSpec.type.isArray /\
     ToSpec.type.tag = "array")
        => IF ToSpec.hasItems
           THEN verdict["to"] =>
                    /\ args["to"].t = "array"
                    /\ Range(args["to"].elems) \subseteq Range(ToSpec.items)
           ELSE verdict["to"] <=> args["to"].t = "array"

\* a node that lets every value through, an omitted one included
AcceptsAnyValue(node) == \A v \in Values \cup {UndefinedValue} : AcceptsType(node, v)

\* C11: a field without a type, or with a single tag that is none of the five
\* primitive tags, gets a validator that accepts any value, and no other field
\* gets a validator that accepts any value.
C11_AnyOnlyForUndeclaredType ==
    (tpc # "init" /\ HasTo)
        => (AcceptsAnyValue(zodShape.shape["to"])
                <=> (~ToSpec.type.isArray /\ ToSpec.type.tag \notin PrimitiveTags))

\* C20: the field names of the returned shape are exactly the field names of
\* `properties`; a name that only `required` lists gets no validator node and
\* is not asked of the arguments.
C20_ShapeNamesAreThePropertyNames ==
    (tpc # "init" /\ jsonSchema.present /\ jsonSchema.hasProperties)
        => /\ ~zodShape.threw
           /\ DOMAIN zodShape.shape = DOMAIN jsonSchema.properties
           /\ tpc = "validated" => DOMAIN verdict = DOMAIN jsonSchema.properties

C20_Witness ==
    /\ tpc = "validated"
    /\ jsonSchema.present
    /\ DOMAIN jsonSchema.properties = {"to"}
    /\ jsonSchema.hasRequired
    /\ jsonSchema.required = {"cc"}
    /\ DOMAIN zodShape.shape = {"to"}
    /\ DOMAIN args = {}
    /\ \A k \in DOMAIN verdict : verdict[k]

\* what a field of the given type accepts when it has no enum
AcceptedWithoutEnum(type, v) ==
    IF type.isArray
    THEN IF Len(type.list) \in {2, 3}
         THEN \E i \in 1..Len(type.list) :
                 type.list[i] \notin PrimitiveTags \/ v.t = type.list[i]
         ELSE TRUE
    ELSE type.tag \notin PrimitiveTags \/ v.t = type.tag

\* C21: on a field whose type is not the single tag string (number, boolean,
\* array, object, missing or unknown type, list of types) an enum changes
\* nothing: the field accepts exactly what it accepts without the enum.
C21_EnumIgnoredOffStrings ==
    (Validated /\ HasTo /\ ToGiven /\ ToSpec.hasEnum /\
     (ToSpec.type.isArray \/ ToSpec.type.tag # "string"))
        => (verdict["to"] <=> AcceptedWithoutEnum(ToSpec.type, args["to"]))

C21_Witness ==
    /\ Validated /\ HasTo /\ ToGiven
    /\ ~ToSpec.type.isArray /\ ToSpec.type.tag = "number"
    /\ ToSpec.hasEnum /\ ToSpec.enum = {"a"}
    /\ args["to"].t = "number"
    /\ verdict["to"]

(***************************************************************************)
(* Properties of the server (checked under Spec)                           *)
(***************************************************************************)
CallIds == 1..Len(calls)
\* the descriptor a registered name belongs to, and the shape derived from
\* its parameter schema
ToolOf(c) == TOOLS[registeredTools[calls[c].tool].tool]
DerivedShape(c) == jsonSchemaToZodShape(ToolOf(c).parameters).shape
HasDuplicateName ==
    \E m, n \in 1..Len(TOOLS) : m # n /\ TOOLS[m].name = TOOLS[n].name

\* C4: a call whose arguments fail the shape derived from the tool's schema
\* is answered with a rejection and the tool's handler is never invoked.
C4_InvalidNeverReachesHandler ==
    \A c \in CallIds :
        ~ShapeAccepts(DerivedShape(c), calls[c].args)
            => /\ calls[c].handlerCalls = 0
               /\ calls[c].handler.kind = "none"
               /\ calls[c].outcome = InvalidParams

C4_Witness ==
    \E c, d \in CallIds :
        /\ calls[c].tool = "send_email"
        /\ calls[c].args = [k \in {"to"} |-> Val("number", "", <<>>)]
        /\ calls[c].outcome = InvalidParams
        /\ calls[c].handlerCalls = 0
        /\ calls[d].handlerCalls = 1

\* the text JSON.stringify(v, null, 2) gives for the results of the model
PrettyText(v) ==
    CASE v = SuccessResult -> "{\n  \"status\": \"success\",\n  \"count\": 2\n}"
      [] v = ErrorResult ->
            "{\n  \"status\": \"error\",\n  \"message\": \"Failed: timeout\"\n}"
      [] v = FolderResult ->
            "{\n  \"status\": \"success\",\n  \"folder\": {\n    \"id\": \"f1\"\n  },\n"
            \o "  \"moved\": [\n    \"m1\",\n    \"m2\"\n  ],\n  \"failed\": []\n}"
      [] OTHER -> ""

\* C5: when the handler resolves with a value v that has a JSON form, the
\* wrapped invocation resolves with an envelope of exactly one element of
\* type "text" whose text is the 2-space pretty-printed JSON of v; a result
\* {status:'error', message} is treated the same way.
C5_ResultBecomesEnvelope ==
    \A c \in CallIds :
        (calls[c].handler.kind = "resolved" /\ ~HasCycle(calls[c].handler.value))
            => /\ calls[c].outcome.kind = "envelope"
               /\ Len(calls[c].outcome.content) = 1
               /\ calls[c].outcome.content[1].type = "text"
               /\ calls[c].outcome.content[1].text = PrettyText(calls[c].handler.value)

C5_Witness ==
    \E c \in CallIds :
        /\ calls[c].handler = Resolved(ErrorResult)
        /\ calls[c].outcome.kind = "envelope"
        /\ calls[c].outcome.content[1].text = PrettyText(ErrorResult)

\* C6: when the handler throws or rejects with an error e, the wrapped
\* invocation rejects with e itself and the log holds an error entry naming
\* the tool once the rejection is visible to the transport.
C6_ErrorLoggedAndRethrown ==
    \A c \in CallIds :
        calls[c].handler.kind = "threw"
            => /\ calls[c].outcome = Rejected(calls[c].handler.error)
               /\ LogEntry("error", calls[c].tool, c, calls[c].handler.error) \in log

C6_Witness ==
    \E c \in CallIds :
        /\ calls[c].handler = Threw("boom")
        /\ calls[c].outcome = Rejected("boom")
        /\ LogEntry("error", calls[c].tool, c, "boom") \in log

\* C7: with two descriptors of the same name in TOOLS the registration loop
\* never completes, server.connect is never called and no call is served.
C7_DuplicateNameFailsStartup ==
    HasDuplicateName
        => /\ pc \in {"register", "crashed"}
           /\ toolIndex < Len(TOOLS)
           /\ calls = <<>>

C7_Witness ==
    /\ HasDuplicateName
    /\ pc = "crashed"
    /\ toolIndex = 1
    /\ DOMAIN registeredTools = {"list_emails"}

\* C13: with invocations in flight together, no step changes TOOLS or the
\* registered shapes, a step of one invocation leaves the record of every
\* other invocation as it was, and two settled invocations of the same tool
\* with the same arguments and the same handler outcome have the same outcome.
C13_InvocationsAreIndependent ==
    [][/\ TOOLS' = TOOLS
       /\ pc = "serving" => registeredTools' = registeredTools
       /\ \A c, d \in 1..Len(calls) :
             (c # d /\ calls'[c] # calls[c]) => calls'[d] = calls[d]
       /\ \A c, d \in 1..Len(calls') :
             (/\ calls'[c].stage = "done" /\ calls'[d].stage = "done"
              /\ calls'[c].tool = calls'[d].tool
              /\ calls'[c].args = calls'[d].args
              /\ calls'[c].handler = calls'[d].handler)
                => calls'[c].outcome = calls'[d].outcome]_vars

\* the second invocation has settled while the first still awaits its handler
C13_Witness ==
    /\ Len(calls) = 2
    /\ calls[1].stage = "awaiting"
    /\ calls[2].stage = "done"
    /\ calls[2].handler.kind = "resolved"
    /\ calls[2].outcome.kind = "envelope"
    /\ calls[1].outcome = Pending

\* C15: when the value a handler resolved with has no JSON form, the
\* invocation ends rejected with the serialization error, logged as an error:
\* no envelope is returned for it.
C15_UnserializableResultRejects ==
    \A c \in CallIds :
        (calls[c].handler.kind = "resolved" /\ HasCycle(calls[c].handler.value))
            => /\ calls[c].stage = "done"
               /\ calls[c].outcome = Rejected(CircularError)
               /\ LogEntry("error", calls[c].tool, c, CircularError) \in log

C15_Witness ==
    \E c \in CallIds :
        /\ calls[c].handler = Resolved(CyclicResult)
        /\ calls[c].outcome = Rejected(CircularError)
        /\ calls[c].handlerCalls = 1

\* the position of a module in the concatenation
ModuleRank(module) == CHOOSE i \in 1..Len(Modules) : Modules[i] = module
InModuleOrder(tools) ==
    \A i, j \in 1..Len(tools) :
        i < j => ModuleRank(tools[i].module) <= ModuleRank(tools[j].module)
\* the first toolIndex descriptors are registered, each once, the k-th
\* registration being the k-th descriptor
RegisteredInOrder ==
    /\ Cardinality(DOMAIN registeredTools) = toolIndex
    /\ \A n \in DOMAIN registeredTools :
          /\ registeredTools[n].tool \in 1..toolIndex
          /\ registeredTools[n].order = registeredTools[n].tool
          /\ TOOLS[registeredTools[n].tool].name = n

C17_CallLoggedBeforeHandler ==
    \A c \in CallIds :
        /\ (calls[c].handlerCalls >= 1 \/ calls[c].handler.kind # "none")
              => CallLogEntry(c) \in log
        /\ (calls[c].stage \in {"awaiting", "done"} /\ CallLogEntry(c) \notin log)
              => /\ calls[c].handlerCalls = 0
                 /\ calls[c].handler.kind = "none"
                 /\ calls[c].outcome = Rejected(LoggerError)

C17_Witness ==
    \E c, d \in CallIds :
        /\ calls[c].outcome = Rejected(LoggerError)
        /\ calls[c].handlerCalls = 0
        /\ CallLogEntry(c) \notin log
        /\ calls[d].tool = "send_email"
        /\ calls[d].handlerCalls = 1
        /\ LogEntry("info", "send_email", d, "called with args: {\"to\":\"a\"}") \in log

\* C19: the handler of an invocation is called at most once; an invocation
\* whose handler failed is over and its handler has been called once.
C19_HandlerCalledAtMostOnce ==
    \A c \in CallIds :
        /\ calls[c].handlerCalls <= 1
        /\ calls[c].handler.kind = "threw"
              => /\ calls[c].stage = "done"
                 /\ calls[c].handlerCalls = 1

C19_Witness ==
    \E c \in CallIds :
        /\ calls[c].handler = Threw("Request failed with status code 401")
        /\ calls[c].stage = "done"
        /\ calls[c].handlerCalls = 1

(***************************************************************************)
(* Properties of wrappedHandler invoked directly (checked under SpecW)     *)
(***************************************************************************)
\* C18: the handler of an invocation made with undefined or null receives an
\* empty mapping; the handler of an invocation made with a mapping receives
\* that mapping.
C18_NoArgumentsBecomeEmptyMapping ==
    \A c \in CallIds :
        calls[c].handlerCalls >= 1
            => calls[c].handlerArgs =
                  IF calls[c].wargs.kind \in {"undefined", "null"}
                  THEN Mapping(NoArgs) ELSE calls[c].wargs

C18_Witness ==
    \E c, d \in CallIds :
        /\ calls[c].wargs = Null
        /\ calls[c].handlerCalls = 1
        /\ calls[c].handlerArgs = Mapping(NoArgs)
        /\ calls[d].wargs.kind = "mapping"
        /\ calls[d].handlerCalls = 1
        /\ calls[d].handlerArgs = Mapping([k \in {"to"} |-> Val("string", "a", <<>>)])

(***************************************************************************)
(* Properties of the domain handlers                                       *)
(***************************************************************************)

HandlerDone == hpc = "done"
FailedRequests == {n \in 1..Len(requests) : requests[n].response = "throws"}

\* C12: a domain handler called with a parameter mapping never rejects, and
\* when one of its HTTP-client, auth-server or token-store calls failed it
\* resolves with status 'error' and a message, or, in the per-email handlers,
\* with a failure record for the email of each failed request.
C12_FailuresBecomeStructuredValues ==
    /\ hresult.kind # "rejected"
    /\ (HandlerDone /\ FailedRequests # {}) =>
          /\ hresult.kind = "returned"
          /\ IF handler \in {"moveEmails", "copyEmails"}
             THEN \A n \in FailedRequests :
                    \E f \in 1..Len(hresult.failed) :
                       /\ hresult.failed[f].id = requests[n].id
                       /\ hresult.failed[f].error # ""
             ELSE hresult.status = "error" /\ hresult.message # ""

\* moveFolderHandler's last request, the delete, fails
C12_Witness ==
    /\ HandlerDone
    /\ handler = "moveFolder"
    /\ Len(requests) >= 6
    /\ requests[Len(requests)].method = "delete"
    /\ requests[Len(requests)].response = "throws"
    /\ hresult = Returns("error", "Failed to move folder: " \o RequestError)

\* the requests of a per-email call that came back with the given response
RequestIds(reqs) == [k \in 1..Len(reqs) |-> reqs[k].id]
RequestsWith(response) == SelectSeq(requests, LAMBDA r : r.response = response)
EmailsHandlers == {"moveEmails", "copyEmails"}
EmailsPath == IF handler = "moveEmails" THEN "/me/messages/{id}/move"
                                        ELSE "/me/messages/{id}/copy"
LoopStarted == handler \in EmailsHandlers /\ ~NoEmailIdsGiven(emailIds)
                  /\ params["destinationFolderId"] # ""

\* C23: given a non-empty array of ids and a destination, the two per-email
\* handlers issue exactly one move/copy request per id, in array order,
\* whatever the earlier requests answered, and on return the ids whose
\* request succeeded are results.success and the others results.failed, so
\* that the two lengths add up to the length of the input.
C23_OneRequestPerEmail ==
    (HandlerDone /\ LoopStarted) =>
        /\ RequestIds(requests) = emailIds.ids
        /\ \A k \in 1..Len(requests) :
              /\ requests[k].method = "post"
              /\ requests[k].path = EmailsPath
              /\ requests[k].body = params["destinationFolderId"]
        /\ hresult.succeeded = RequestIds(RequestsWith("ok"))
        /\ [k \in 1..Len(hresult.failed) |-> hresult.failed[k].id]
              = RequestIds(RequestsWith("throws"))
        /\ Len(hresult.succeeded) + Len(hresult.failed) = Len(emailIds.ids)

\* the first of two requests failed and the second was still issued
C23_Witness ==
    /\ HandlerDone /\ handler = "moveEmails"
    /\ emailIds.ids = <<"m1", "m2">>
    /\ Len(requests) = 2
    /\ requests[1].response = "throws"
    /\ requests[2].response = "ok"
    /\ hresult.succeeded = <<"m2">>

\* C24: once the loop has started the status is 'success' exactly when no
\* request failed and 'partial' otherwise, also when every request failed;
\* it is never 'error'.
C24_SuccessOrPartial ==
    (HandlerDone /\ LoopStarted) =>
        /\ hresult.kind = "returned"
        /\ hresult.status = "success" <=> Len(RequestsWith("throws")) = 0
        /\ hresult.status = "partial" <=> Len(RequestsWith("throws")) > 0
        /\ hresult.status # "error"

\* every request of a copy failed
C24_Witness ==
    /\ HandlerDone /\ handler = "copyEmails"
    /\ Len(requests) = 2
    /\ \A k \in 1..2 : requests[k].response = "throws"
    /\ hresult.status = "partial"
    /\ hresult.succeeded = <<>>

\* the handler was called without one of the parameters it requires
Missing(name) == name \in DOMAIN params /\ params[name] = ""
Empty(name) == name \in DOMAIN params /\ params[name] \in {"", "{}"}
RequiredMissing ==
    CASE handler \in EmailsHandlers ->
            emailIds.kind # "array" \/ emailIds.ids = <<>> \/ Missing("destinationFolderId")
      [] handler = "moveFolder" ->
            \/ Missing("folderId") \/ Missing("destinationFolderId")
            \/ params["folderId"] = params["destinationFolderId"]
      [] handler \in {"getFolder", "deleteFolder"} -> Missing("folderId")
      [] handler = "updateFolder" -> Missing("folderId") \/ Missing("name")
      [] handler = "createFolder" -> Missing("name")
      [] handler \in {"getRule", "updateRule", "deleteRule", "rules/delete.deleteRule"} ->
            Missing("ruleId")
      [] handler = "createRule" ->
            Missing("displayName") \/ Empty("conditions") \/ Empty("actions")
      [] handler = "createEvent" -> Missing("subject") \/ Missing("start")
      [] OTHER -> FALSE

\* C27: a handler called without a required parameter, or moveFolderHandler
\* called with folderId equal to destinationFolderId, issues no request at
\* any point of the call and returns status 'error'.
C27_ChecksBeforeRequests ==
    RequiredMissing =>
        /\ requests = <<>>
        /\ hpc \in {"called", "done"}
        /\ HandlerDone => (hresult.kind = "returned" /\ hresult.status = "error")

\* createRuleHandler has returned on a conditions object without keys
C27_Witness ==
    /\ HandlerDone /\ handler = "createRule"
    /\ params["displayName"] = "given"
    /\ params["conditions"] = "{}"
    /\ params["actions"] = "given"
    /\ hresult.status = "error"
    /\ requests = <<>>

\* the requests of a moveFolderHandler call
IsDelete(r) == r.method = "delete"
Deletes == SelectSeq(requests, IsDelete)
ThrownBeforeLast == \E n \in 1..(Len(requests) - 1) : requests[n].response = "throws"
ThrownNotByDelete == \E n \in 1..Len(requests) :
                        requests[n].response = "throws" /\ ~IsDelete(requests[n])

\* C25: the delete of the source folder is the last request of a
\* moveFolderHandler call; it comes after the two folders were read, the new
\* folder was posted, and every move and child-folder request before it came
\* back without throwing; when an earlier request throws (or a folder read
\* comes back empty) no delete is issued and the status is 'error'.
C25_DeleteComesLast ==
    handler = "moveFolder" =>
        /\ Len(Deletes) <= 1
        /\ Len(Deletes) = 1 =>
              /\ IsDelete(requests[Len(requests)])
              /\ requests[Len(requests)].id = params["folderId"]
              /\ hpc = "done"
              /\ Len(requests) >= 6
              /\ requests[1].response = "ok" /\ requests[2].response = "ok"
              /\ requests[3].method = "post" /\ requests[3].id = params["destinationFolderId"]
              /\ ~ThrownBeforeLast
        /\ (ThrownNotByDelete
              \/ (Len(requests) >= 1 /\ Len(requests) <= 2
                     /\ requests[Len(requests)].response = "empty")) =>
              /\ Len(Deletes) = 0
              /\ hpc = "done"
              /\ hresult.kind = "returned" /\ hresult.status = "error"

\* the delete went out after two messages and a child folder with a message
\* of its own were moved
C25_Witness ==
    /\ HandlerDone /\ handler = "moveFolder"
    /\ environment.messages = 2
    /\ Len(environment.children) = 1
    /\ environment.children[1].messages = 1
    /\ Len(requests) = 10
    /\ IsDelete(requests[10])
    /\ hresult.status = "success"

\* the messages the call moved, and those the source folder held before it,
\* itself and in the folders below it
IsMove(r) == r.method = "post" /\ r.path = "/me/messages/{id}/move" /\ r.response = "ok"
MovedMessages == Len(SelectSeq(requests, IsMove))
RECURSIVE MessagesBelow(_)
MessagesBelow(children) ==
    IF children = <<>> THEN 0
    ELSE Head(children).messages + Head(children).nested + MessagesBelow(Tail(children))
MessagesBefore == environment.messages + MessagesBelow(environment.children)

\* C26: when moveFolderHandler returns 'success', every message the source
\* folder or a folder below it held before the call has been moved.
C26_SuccessMovesEveryMessage ==
    (HandlerDone /\ handler = "moveFolder" /\ hresult.status = "success")
        => MovedMessages = MessagesBefore

\* C29: the user id of an 'authentication_started' result is the state
\* sent to the auth server in the same call.
C29_ReportedUserIdIsState ==
    (HandlerDone /\ handler = "authenticate" /\ hresult.status = "authentication_started")
        => hresult.userId = requests[1].body

(***************************************************************************)
(* Properties of the session helper (checked under SpecS)                  *)
(***************************************************************************)
\* the fields of a session other than the time stamp kept by the helper
OwnFields(session) == DOMAIN session \ {"lastAccess"}
SameOwnFields(a, b) ==
    /\ OwnFields(a) = OwnFields(b)
    /\ \A f \in OwnFields(a) : a[f] = b[f]

\* C22: no call removes an entry of the session map: the set of user ids
\* never shrinks, a store under a new id adds exactly that id, and a store
\* under a known id or a read leaves the set as it is.
C22_SessionsOnlyAccumulate ==
    [][/\ DOMAIN userSessions \subseteq DOMAIN userSessions'
       /\ DOMAIN userSessions' =
             IF sessionCall'.op = "store"
             THEN DOMAIN userSessions \cup {sessionCall'.userId}
             ELSE DOMAIN userSessions
       /\ (sessionCall'.op = "store" /\ sessionCall'.userId \notin DOMAIN userSessions)
             => Cardinality(DOMAIN userSessions') = Cardinality(DOMAIN userSessions) + 1]_vars

\* both ids are held, the older entry long after its last access
C22_Witness ==
    /\ DOMAIN userSessions = SessionUserIds
    /\ sessionCall.op = "get"
    /\ sessionCall.userId = "u2"
    /\ userSessions["u1"]["lastAccess"] < now
    /\ now = MaxNow

\* what every call does, whatever the fields compared after a store: a read
\* of a stored id returns the entry with its own fields as they were, a read
\* of an id not in the map returns null, and the entries of the other ids
\* stay as they are
SessionFrame ==
    LET u == sessionCall'.userId
    IN  /\ \A v \in SessionUserIds \ {u} :
              /\ v \in DOMAIN userSessions' <=> v \in DOMAIN userSessions
              /\ v \in DOMAIN userSessions => userSessions'[v] = userSessions[v]
        /\ sessionCall'.op = "get" =>
              IF u \in DOMAIN userSessions
              THEN /\ ~sessionCall'.returned.null
                   /\ SameOwnFields(sessionCall'.returned.session, userSessions[u])
                   /\ SameOwnFields(userSessions'[u], userSessions[u])
              ELSE /\ sessionCall'.returned.null
                   /\ u \notin DOMAIN userSessions'

\* C30 as stated: the entry stored for u holds every field of s, the frame
\* holds, and reads return the entry.
C30_StoredSessionHoldsAllFields ==
    [][/\ SessionFrame
       /\ sessionCall'.op = "store" =>
             \A f \in DOMAIN sessionCall'.session :
                userSessions'[sessionCall'.userId][f] = sessionCall'.session[f]]_vars

\* C30, amended: the entry stored for u holds every field of s other than
\* lastAccess, which is set to the time of the call; until the next store for
\* u a read of u returns these fields; a read of an id never stored returns
\* null; a call for u changes no entry of another id.
C30_StoredSessionHoldsOwnFields ==
    [][/\ SessionFrame
       /\ sessionCall'.op = "store" =>
             /\ SameOwnFields(userSessions'[sessionCall'.userId], sessionCall'.session)
             /\ userSessions'[sessionCall'.userId]["lastAccess"] = now']_vars

\* a session stored for u1 is read back after a store and a read for u2
C30_Witness ==
    /\ sessionCall.op = "get"
    /\ sessionCall.userId = "u1"
    /\ ~sessionCall.returned.null
    /\ "token" \in DOMAIN sessionCall.returned.session
    /\ sessionCall.returned.session["token"] = 2
    /\ sessionCall.returned.session["lastAccess"] = now
    /\ "u2" \in DOMAIN userSessions
    /\ userSessions["u2"]["lastAccess"] < now

(***************************************************************************)
(* Properties of the token migration (checked under SpecM)                 *)
(***************************************************************************)
\* C28: a run writes the token file only when the file holds exactly one
\* user key and no token under 'default'; after the write the file holds the
\* token of that key under 'default' and under the key itself and nothing
\* else; no run changes or removes the token of a key the file held; a run
\* on a missing file writes nothing; a run after the first leaves the file
\* as the first run left it.
C28_MigrationAddsDefaultOnce ==
    [][LET before == tokenFile.tokens
           after == tokenFile'.tokens
       IN  /\ (migration'.wrote \/ tokenFile' # tokenFile) =>
                 /\ tokenFile.exists /\ tokenFile.parses
                 /\ Cardinality(DOMAIN before) = 1
                 /\ "default" \in DOMAIN before => before["default"] = "null"
                 /\ \E u \in DOMAIN before :
                       /\ DOMAIN after = {"default", u}
                       /\ after["default"] = before[u]
                       /\ after[u] = before[u]
           /\ \A k \in DOMAIN before : k \in DOMAIN after /\ after[k] = before[k]
           /\ tokenFile'.exists = tokenFile.exists
           /\ ~tokenFile.exists => ~migration'.wrote
           /\ migration.runs >= 1 => tokenFile' = tokenFile]_vars

\* the file of a single user was migrated by the first run and found in
\* order by the second
C28_Witness ==
    /\ migration.runs = 2
    /\ migration.writes = 1
    /\ ~migration.wrote
    /\ DOMAIN tokenFile.tokens = {"default", "alice"}
    /\ tokenFile.tokens["default"] = "t1"
    /\ tokenFile.tokens["alice"] = "t1"

====
